---- MODULE Spec2Model ----
(***************************************************************************)
(* Model of handleCommandExecution (src/main.go, streaming variant): the   *)
(* relay coordinator, the two pipe readers, the process-wait goroutine,    *)
(* the child process and the Slack message sink; of the webhook handler    *)
(* that starts it; and of the handler of the synchronous variant.          *)
(***************************************************************************)
EXTENDS Integers, Sequences, FiniteSets, TLC

\* ------------------------------------------------------------------ bounds
\* Most bytes the child writes to stdout / stderr in one execution.
MaxOut == 2
MaxErr == 1
\* Capacity of outputCh (make(chan []byte, 100) in the source), scaled down.
QueueCap == 2
\* Size of a reader's buffer (make([]byte, 4096) in the source), scaled down.
ChunkSize == 2
\* Most ticker events delivered during one execution.
MaxTicks == 2
\* Longest text handed to a sink function called on its own.
MaxText == 3
\* Longest text of a request to the webhook handler.
MaxCommand == 4

\* ------------------------------------------------------------- text pieces
Streams == {"stdout", "stderr"}

\* The bytes the child writes: stdout is 1,2,.. and stderr is 11,12,..
StdoutByte(i) == i
StderrByte(i) == 10 + i

\* "```\n" written to outputBuf before any output.
FenceOpen == <<96, 96, 96, 10>>

\* fmt.Sprintf("%d", n) as ASCII digits.
RECURSIVE Digits(_)
Digits(n) == IF n < 10 THEN <<48 + n>> ELSE Digits(n \div 10) \o <<48 + (n % 10)>>

Itoa(n) == IF n < 0 THEN <<45>> \o Digits(0 - n) ELSE Digits(n)

\* "**Process completed**\n- Exit code: " and "- Execution time: <duration>\n"
\* are abbreviated to one byte each ('P' and 'T').
DebugInfo(exitCode) == <<96, 96, 96, 10, 10, 80>> \o Itoa(exitCode) \o <<10, 84, 10>>

\* "Error starting command: <err>\n" abbreviated to 'E', newline.
ErrorMsg == <<69, 10>>

FinalOutputReportFirst(buf, debugInfo) == debugInfo \o buf

\* finalOutput: outputBuf followed by debugInfo.
FinalOutput(buf, debugInfo) == buf \o debugInfo

NewOutputDropsByte(buf, last) == SubSeq(buf, last + 2, Len(buf))

NewOutputFromStart(buf, last) == buf

\* outputBuf.Bytes()[lastSentLen:]
NewOutput(buf, last) == SubSeq(buf, last + 1, Len(buf))

\* The result of cmd.Wait(): nil, an *exec.ExitError of a normal exit with a
\* nonzero status, an *exec.ExitError of a child killed by a signal
\* (ExitCode() is -1), or another error (an I/O error of Wait).
WaitErrs == { [kind |-> "nil", code |-> 0],
              [kind |-> "exit", code |-> 1],
              [kind |-> "signal", code |-> 0 - 1],
              [kind |-> "other", code |-> 0] }

\* exitCode := 0; if err is an *exec.ExitError, exitCode = ExitCode().
ExitCodeOf(err) == IF err.kind \in {"exit", "signal"} THEN err.code ELSE 0

\* ------------------------------------------------------------------- state
VARIABLES
    pc,               \* position of the coordinator in handleCommandExecution
    streamingEnabled, \* startChatStream succeeded
    streamingFailed,  \* an append or stop failed in the loop/completion path
    lastSentLen,      \* lastSentLen
    outputBuf,        \* outputBuf, a sequence of bytes
    outputCh,         \* outputCh, a FIFO of chunks, capacity QueueCap
    commandDone,      \* commandDone, a FIFO of capacity 1
    ticks,            \* ticker events received so far
    waitErr,          \* the value received from commandDone
    finalOutput,      \* finalOutput.String() once prepared, <<>> before
    debugInfo,        \* debugInfo once prepared, <<>> before
    calls,            \* the calls made to the sink, in order
    child,            \* "none", "running", "exited"
    toWrite,          \* per stream: bytes the child has still to write
    pipe,             \* per stream: bytes written and not yet read
    pipeClosed,       \* per stream: Wait has closed the parent's read end
    rd,               \* per stream: the reader goroutine
    waited,           \* the process-wait goroutine has run cmd.Wait()
    written,          \* history: per stream, all bytes the child wrote
    enq,              \* history: all chunks pushed on outputCh, in order
    fn,               \* a sink function called on its own: name, text, result
    requests,         \* the requests that call handed to the HTTP client
    handler,          \* the webhook handler: its request, position, response
    twin,             \* a second run of the completion path, other exit status
    other             \* a second execution running at the same time

execVars == << pc, streamingEnabled, streamingFailed, lastSentLen, outputBuf,
               outputCh, commandDone, ticks, waitErr, finalOutput, debugInfo,
               calls, child, toWrite, pipe, pipeClosed, rd, waited, written,
               enq >>

fnVars == << fn, requests, handler, twin, other >>

vars == << execVars, fnVars >>

coordVars == << pc, streamingEnabled, streamingFailed, lastSentLen, outputBuf,
                ticks, waitErr, finalOutput, debugInfo, calls >>

procVars == << child, toWrite, pipe, pipeClosed, rd, waited, written >>

Call(op, text, ok) == [op |-> op, text |-> text, ok |-> ok]

NoErr == [kind |-> "nil", code |-> 0]

\* No sink function is being called on its own.
NoFn == [name |-> "none", text |-> <<>>, pc |-> "none",
         answer |-> "none", ret |-> FALSE]

\* No request is being handled.
NoHandler == [pc |-> "none"]

\* No second run of the completion path is made.
NoTwin == [phase |-> "none"]

\* No second execution is running.
NoOther == [pc |-> "none"]

\* The variables of an execution that has not made a step, pc aside.
ExecFields ==
    /\ streamingEnabled = FALSE
    /\ streamingFailed = FALSE
    /\ lastSentLen = 0
    /\ outputBuf = <<>>
    /\ outputCh = <<>>
    /\ commandDone = <<>>
    /\ ticks = 0
    /\ waitErr = NoErr
    /\ finalOutput = <<>>
    /\ debugInfo = <<>>
    /\ calls = <<>>
    /\ child = "none"
    /\ \E no \in 0..MaxOut, ne \in 0..MaxErr :
         toWrite = [s \in Streams |->
                      IF s = "stdout" THEN [i \in 1..no |-> StdoutByte(i)]
                                      ELSE [i \in 1..ne |-> StderrByte(i)]]
    /\ pipe = [s \in Streams |-> <<>>]
    /\ pipeClosed = [s \in Streams |-> FALSE]
    /\ rd = [s \in Streams |-> [pc |-> "idle", chunk |-> <<>>]]
    /\ waited = FALSE
    /\ written = [s \in Streams |-> <<>>]
    /\ enq = <<>>

\* The state at the entry of handleCommandExecution.
ExecInit ==
    /\ pc = "postInitial"
    /\ ExecFields

Init ==
    /\ ExecInit
    /\ fn = NoFn
    /\ requests = <<>>
    /\ handler = NoHandler
    /\ twin = NoTwin
    /\ other = NoOther

\* ------------------------------------------------- coordinator, before loop
\* The timestamp the sink gives to a posted message.
MessageTS == <<49>>

\* What chat.postMessage can answer: err is a transport or decoding error,
\* ok is the "ok" field, ts and messageTs are "ts" and "message.ts".
PostMessageReplies ==
    [err : BOOLEAN, ok : BOOLEAN,
     ts : {<<>>, MessageTS}, messageTs : {<<>>, MessageTS}]

\* ts := msgResp.TS; if ts == "" && msgResp.Message.TS != "" it is Message.TS.
PostInitialTS(r) == IF r.ts = <<>> /\ r.messageTs # <<>> THEN r.messageTs ELSE r.ts

PostInitialErrIgnoringTimestamp(r) == r.err \/ ~r.ok

\* postInitialMessage returns an error on a transport or decoding error, on
\* a reply that is not ok, and on a reply without a timestamp.
PostInitialErr(r) == r.err \/ ~r.ok \/ PostInitialTS(r) = <<>>

\* threadTS, err := postInitialMessage(...); on error return.  The call is
\* logged with the threadTS it returned ("" with an error).
PostInitial ==
    /\ pc = "postInitial"
    /\ \E r \in PostMessageReplies :
         /\ calls' = Append(calls,
                Call("postInitial",
                     IF r.err \/ ~r.ok THEN <<>> ELSE PostInitialTS(r),
                     ~(r.err \/ ~r.ok \/ PostInitialTS(r) = <<>>)))
         /\ pc' = IF PostInitialErr(r) THEN "done" ELSE "startStream"
    /\ UNCHANGED << streamingEnabled, streamingFailed, lastSentLen, outputBuf,
                    ticks, waitErr, finalOutput, debugInfo >>
    /\ UNCHANGED << outputCh, commandDone, enq >>
    /\ UNCHANGED procVars
    /\ UNCHANGED fnVars

\* _, err = startChatStream(...); streamingEnabled = (err == nil).
StartStream ==
    /\ pc = "startStream"
    /\ \E ok \in BOOLEAN :
         /\ calls' = Append(calls, Call("start", <<>>, ok))
         /\ streamingEnabled' = ok
    /\ pc' = "stdoutPipe"
    /\ UNCHANGED << streamingFailed, lastSentLen, outputBuf,
                    ticks, waitErr, finalOutput, debugInfo >>
    /\ UNCHANGED << outputCh, commandDone, enq >>
    /\ UNCHANGED procVars
    /\ UNCHANGED fnVars

StdoutPipeStopsAlways ==
    /\ pc = "stdoutPipe"
    /\ \E ok \in BOOLEAN :
         IF ok
         THEN pc' = "stderrPipe" /\ calls' = calls
         ELSE /\ pc' = "done"
              /\ \E sok \in BOOLEAN :
                   calls' = Append(calls, Call("stop", <<>>, sok))
    /\ UNCHANGED << streamingEnabled, streamingFailed, lastSentLen, outputBuf,
                    ticks, waitErr, finalOutput, debugInfo >>
    /\ UNCHANGED << outputCh, commandDone, enq >>
    /\ UNCHANGED procVars
    /\ UNCHANGED fnVars

\* stdout, err := cmd.StdoutPipe(); on error stop the stream if it was
\* started (the result of stopChatStream is dropped) and return.
StdoutPipe ==
    /\ pc = "stdoutPipe"
    /\ \E ok \in BOOLEAN :
         IF ok
         THEN pc' = "stderrPipe" /\ calls' = calls
         ELSE /\ pc' = "done"
              /\ IF streamingEnabled
                 THEN \E sok \in BOOLEAN :
                        calls' = Append(calls, Call("stop", <<>>, sok))
                 ELSE calls' = calls
    /\ UNCHANGED << streamingEnabled, streamingFailed, lastSentLen, outputBuf,
                    ticks, waitErr, finalOutput, debugInfo >>
    /\ UNCHANGED << outputCh, commandDone, enq >>
    /\ UNCHANGED procVars
    /\ UNCHANGED fnVars

\* stderr, err := cmd.StderrPipe(); same handling.
StderrPipe ==
    /\ pc = "stderrPipe"
    /\ \E ok \in BOOLEAN :
         IF ok
         THEN pc' = "cmdStart" /\ calls' = calls
         ELSE /\ pc' = "done"
              /\ IF streamingEnabled
                 THEN \E sok \in BOOLEAN :
                        calls' = Append(calls, Call("stop", <<>>, sok))
                 ELSE calls' = calls
    /\ UNCHANGED << streamingEnabled, streamingFailed, lastSentLen, outputBuf,
                    ticks, waitErr, finalOutput, debugInfo >>
    /\ UNCHANGED << outputCh, commandDone, enq >>
    /\ UNCHANGED procVars
    /\ UNCHANGED fnVars

\* cmd.Start() succeeded: the child runs, outputBuf gets the opening fence,
\* the two readers and the process-wait goroutine are started, and the
\* coordinator enters its select loop.
CmdStartOk ==
    /\ pc = "cmdStart"
    /\ pc' = "loop"
    /\ child' = "running"
    /\ outputBuf' = FenceOpen
    /\ rd' = [s \in Streams |-> [pc |-> "read", chunk |-> <<>>]]
    /\ UNCHANGED << streamingEnabled, streamingFailed, lastSentLen,
                    ticks, waitErr, finalOutput, debugInfo, calls >>
    /\ UNCHANGED << outputCh, commandDone, enq >>
    /\ UNCHANGED << toWrite, pipe, pipeClosed, waited, written >>
    /\ UNCHANGED fnVars

CmdStartFailEntersLoop ==
    /\ pc = "cmdStart"
    /\ pc' = "loop"
    /\ UNCHANGED << streamingEnabled, streamingFailed, lastSentLen, outputBuf,
                    ticks, waitErr, finalOutput, debugInfo, calls >>
    /\ UNCHANGED << outputCh, commandDone, enq >>
    /\ UNCHANGED procVars
    /\ UNCHANGED fnVars

\* cmd.Start() failed.
CmdStartFail ==
    /\ pc = "cmdStart"
    /\ pc' = "spawnFail"
    /\ UNCHANGED << streamingEnabled, streamingFailed, lastSentLen, outputBuf,
                    ticks, waitErr, finalOutput, debugInfo, calls >>
    /\ UNCHANGED << outputCh, commandDone, enq >>
    /\ UNCHANGED procVars
    /\ UNCHANGED fnVars

\* Spawn failure: appendToStream(errorMsg) when streaming is enabled (its
\* result is dropped), otherwise postThreadReply(errorMsg) and return.
SpawnFailReport ==
    /\ pc = "spawnFail"
    /\ \E ok \in BOOLEAN :
         IF streamingEnabled
         THEN /\ calls' = Append(calls, Call("append", ErrorMsg, ok))
              /\ pc' = "spawnFailStop"
         ELSE /\ calls' = Append(calls, Call("reply", ErrorMsg, ok))
              /\ pc' = "done"
    /\ UNCHANGED << streamingEnabled, streamingFailed, lastSentLen, outputBuf,
                    ticks, waitErr, finalOutput, debugInfo >>
    /\ UNCHANGED << outputCh, commandDone, enq >>
    /\ UNCHANGED procVars
    /\ UNCHANGED fnVars

\* Spawn failure, streaming enabled: stopChatStream (result dropped), return.
SpawnFailStop ==
    /\ pc = "spawnFailStop"
    /\ \E ok \in BOOLEAN :
         calls' = Append(calls, Call("stop", <<>>, ok))
    /\ pc' = "done"
    /\ UNCHANGED << streamingEnabled, streamingFailed, lastSentLen, outputBuf,
                    ticks, waitErr, finalOutput, debugInfo >>
    /\ UNCHANGED << outputCh, commandDone, enq >>
    /\ UNCHANGED procVars
    /\ UNCHANGED fnVars

\* ---------------------------------------------- child, readers, cmd.Wait
\* The child writes its next byte to one of its two streams.
ChildWrite(s) ==
    /\ child = "running"
    /\ toWrite[s] # <<>>
    /\ pipe' = [pipe EXCEPT ![s] = Append(@, Head(toWrite[s]))]
    /\ written' = [written EXCEPT ![s] = Append(@, Head(toWrite[s]))]
    /\ toWrite' = [toWrite EXCEPT ![s] = Tail(@)]
    /\ UNCHANGED << child, pipeClosed, rd, waited >>
    /\ UNCHANGED coordVars
    /\ UNCHANGED << outputCh, commandDone, enq >>
    /\ UNCHANGED fnVars

\* The child exits once it has written everything.
ChildExit ==
    /\ child = "running"
    /\ \A s \in Streams : toWrite[s] = <<>>
    /\ child' = "exited"
    /\ UNCHANGED << toWrite, pipe, pipeClosed, rd, waited, written >>
    /\ UNCHANGED coordVars
    /\ UNCHANGED << outputCh, commandDone, enq >>
    /\ UNCHANGED fnVars

Min(a, b) == IF a < b THEN a ELSE b

\* n, err := stream.Read(buf): an error once Wait has closed the read end
\* (whatever the pipe still holds is gone), else up to ChunkSize bytes, else
\* EOF once the child has exited; blocks otherwise.  n > 0 goes on to push.
ReaderRead(s) ==
    /\ rd[s].pc = "read"
    /\ IF pipeClosed[s]
       THEN /\ rd' = [rd EXCEPT ![s] = [pc |-> "done", chunk |-> <<>>]]
            /\ pipe' = pipe
       ELSE IF pipe[s] # <<>>
       THEN LET n == Min(Len(pipe[s]), ChunkSize) IN
            /\ rd' = [rd EXCEPT ![s] = [pc |-> "push",
                                        chunk |-> SubSeq(pipe[s], 1, n)]]
            /\ pipe' = [pipe EXCEPT ![s] = SubSeq(@, n + 1, Len(@))]
       ELSE /\ child = "exited"
            /\ rd' = [rd EXCEPT ![s] = [pc |-> "done", chunk |-> <<>>]]
            /\ pipe' = pipe
    /\ UNCHANGED << child, toWrite, pipeClosed, waited, written >>
    /\ UNCHANGED coordVars
    /\ UNCHANGED << outputCh, commandDone, enq >>
    /\ UNCHANGED fnVars

ReaderPushFront(s) ==
    /\ rd[s].pc = "push"
    /\ Len(outputCh) < QueueCap
    /\ outputCh' = <<rd[s].chunk>> \o outputCh
    /\ enq' = Append(enq, rd[s].chunk)
    /\ rd' = [rd EXCEPT ![s] = [pc |-> "read", chunk |-> <<>>]]
    /\ UNCHANGED << child, toWrite, pipe, pipeClosed, waited, written >>
    /\ UNCHANGED coordVars
    /\ UNCHANGED commandDone
    /\ UNCHANGED fnVars

\* outputCh <- append([]byte(nil), buf[:n]...): blocks while outputCh is full.
ReaderPush(s) ==
    /\ rd[s].pc = "push"
    /\ Len(outputCh) < QueueCap
    /\ outputCh' = Append(outputCh, rd[s].chunk)
    /\ enq' = Append(enq, rd[s].chunk)
    /\ rd' = [rd EXCEPT ![s] = [pc |-> "read", chunk |-> <<>>]]
    /\ UNCHANGED << child, toWrite, pipe, pipeClosed, waited, written >>
    /\ UNCHANGED coordVars
    /\ UNCHANGED commandDone
    /\ UNCHANGED fnVars

\* commandDone <- cmd.Wait(): Wait returns once the child has exited and
\* closes the parent's ends of both pipes before it returns.
CmdWait ==
    /\ child = "exited"
    /\ ~waited
    /\ waited' = TRUE
    /\ pipeClosed' = [s \in Streams |-> TRUE]
    /\ \E e \in WaitErrs : commandDone' = Append(commandDone, e)
    /\ UNCHANGED << child, toWrite, pipe, rd, written >>
    /\ UNCHANGED coordVars
    /\ UNCHANGED << outputCh, enq >>
    /\ UNCHANGED fnVars

\* ------------------------------------------------- coordinator, the loop
DequeueOverwrites ==
    /\ pc = "loop"
    /\ outputCh # <<>>
    /\ outputBuf' = Head(outputCh)
    /\ outputCh' = Tail(outputCh)
    /\ UNCHANGED << pc, streamingEnabled, streamingFailed, lastSentLen,
                    ticks, waitErr, finalOutput, debugInfo, calls >>
    /\ UNCHANGED << commandDone, enq >>
    /\ UNCHANGED procVars
    /\ UNCHANGED fnVars

\* case data := <-outputCh: outputBuf.Write(data)
Dequeue ==
    /\ pc = "loop"
    /\ outputCh # <<>>
    /\ outputBuf' = outputBuf \o Head(outputCh)
    /\ outputCh' = Tail(outputCh)
    /\ UNCHANGED << pc, streamingEnabled, streamingFailed, lastSentLen,
                    ticks, waitErr, finalOutput, debugInfo, calls >>
    /\ UNCHANGED << commandDone, enq >>
    /\ UNCHANGED procVars
    /\ UNCHANGED fnVars

ShouldFlushIgnoringFailed(bufLen, last, enabled, failed) ==
    bufLen > last /\ enabled

ShouldFlushIgnoringEnabled(bufLen, last, enabled, failed) ==
    bufLen > last /\ ~failed

\* outputBuf.Len() > lastSentLen && streamingEnabled && !streamingFailed
ShouldFlush(bufLen, last, enabled, failed) ==
    bufLen > last /\ enabled /\ ~failed

AfterFlushAlwaysAdvance(ok, last, bufLen) == bufLen

\* lastSentLen after a flush: outputBuf.Len() on success, unchanged on failure.
AfterFlush(ok, last, bufLen) == IF ok THEN bufLen ELSE last

TickFlushesEmpty ==
    /\ pc = "loop"
    /\ ticks < MaxTicks
    /\ ticks' = ticks + 1
    /\ IF streamingEnabled /\ ~streamingFailed
       THEN \E ok \in BOOLEAN :
              /\ calls' = Append(calls,
                     Call("append", NewOutput(outputBuf, lastSentLen), ok))
              /\ streamingFailed' = IF ok THEN streamingFailed ELSE TRUE
              /\ lastSentLen' = AfterFlush(ok, lastSentLen, Len(outputBuf))
       ELSE UNCHANGED << calls, streamingFailed, lastSentLen >>
    /\ UNCHANGED << pc, streamingEnabled, outputBuf,
                    waitErr, finalOutput, debugInfo >>
    /\ UNCHANGED << outputCh, commandDone, enq >>
    /\ UNCHANGED procVars
    /\ UNCHANGED fnVars

TickRetriesAfterFailure ==
    /\ pc = "loop"
    /\ ticks < MaxTicks
    /\ ticks' = ticks + 1
    /\ IF Len(outputBuf) > lastSentLen /\ streamingEnabled
       THEN \E ok \in BOOLEAN :
              /\ calls' = Append(calls,
                     Call("append", NewOutput(outputBuf, lastSentLen), ok))
              /\ streamingFailed' = ~ok
              /\ lastSentLen' = AfterFlush(ok, lastSentLen, Len(outputBuf))
       ELSE UNCHANGED << calls, streamingFailed, lastSentLen >>
    /\ UNCHANGED << pc, streamingEnabled, outputBuf,
                    waitErr, finalOutput, debugInfo >>
    /\ UNCHANGED << outputCh, commandDone, enq >>
    /\ UNCHANGED procVars
    /\ UNCHANGED fnVars

\* case <-ticker.C: flush the unsent suffix when there is one and streaming
\* is enabled and has not failed.
Tick ==
    /\ pc = "loop"
    /\ ticks < MaxTicks
    /\ ticks' = ticks + 1
    /\ IF ShouldFlush(Len(outputBuf), lastSentLen,
                      streamingEnabled, streamingFailed)
          /\ Len(NewOutput(outputBuf, lastSentLen)) > 0
       THEN \E ok \in BOOLEAN :
              /\ calls' = Append(calls,
                     Call("append", NewOutput(outputBuf, lastSentLen), ok))
              /\ streamingFailed' = IF ok THEN streamingFailed ELSE TRUE
              /\ lastSentLen' = AfterFlush(ok, lastSentLen, Len(outputBuf))
       ELSE UNCHANGED << calls, streamingFailed, lastSentLen >>
    /\ UNCHANGED << pc, streamingEnabled, outputBuf,
                    waitErr, finalOutput, debugInfo >>
    /\ UNCHANGED << outputCh, commandDone, enq >>
    /\ UNCHANGED procVars
    /\ UNCHANGED fnVars

\* case err := <-commandDone: the coordinator leaves the loop.
TakeCommandDone ==
    /\ pc = "loop"
    /\ commandDone # <<>>
    /\ waitErr' = Head(commandDone)
    /\ commandDone' = Tail(commandDone)
    /\ pc' = "waitStdout"
    /\ UNCHANGED << streamingEnabled, streamingFailed, lastSentLen, outputBuf,
                    ticks, finalOutput, debugInfo, calls >>
    /\ UNCHANGED << outputCh, enq >>
    /\ UNCHANGED procVars
    /\ UNCHANGED fnVars

\* <-stdoutDone
WaitStdoutDone ==
    /\ pc = "waitStdout"
    /\ rd["stdout"].pc = "done"
    /\ pc' = "waitStderr"
    /\ UNCHANGED << streamingEnabled, streamingFailed, lastSentLen, outputBuf,
                    ticks, waitErr, finalOutput, debugInfo, calls >>
    /\ UNCHANGED << outputCh, commandDone, enq >>
    /\ UNCHANGED procVars
    /\ UNCHANGED fnVars

WaitStderrDoneNoWait ==
    /\ pc = "waitStderr"
    /\ pc' = "drain"
    /\ UNCHANGED << streamingEnabled, streamingFailed, lastSentLen, outputBuf,
                    ticks, waitErr, finalOutput, debugInfo, calls >>
    /\ UNCHANGED << outputCh, commandDone, enq >>
    /\ UNCHANGED procVars
    /\ UNCHANGED fnVars

\* <-stderrDone
WaitStderrDone ==
    /\ pc = "waitStderr"
    /\ rd["stderr"].pc = "done"
    /\ pc' = "drain"
    /\ UNCHANGED << streamingEnabled, streamingFailed, lastSentLen, outputBuf,
                    ticks, waitErr, finalOutput, debugInfo, calls >>
    /\ UNCHANGED << outputCh, commandDone, enq >>
    /\ UNCHANGED procVars
    /\ UNCHANGED fnVars

\* The drain loop, one chunk: case data := <-outputCh: outputBuf.Write(data)
DrainOne ==
    /\ pc = "drain"
    /\ outputCh # <<>>
    /\ outputBuf' = outputBuf \o Head(outputCh)
    /\ outputCh' = Tail(outputCh)
    /\ UNCHANGED << pc, streamingEnabled, streamingFailed, lastSentLen,
                    ticks, waitErr, finalOutput, debugInfo, calls >>
    /\ UNCHANGED << commandDone, enq >>
    /\ UNCHANGED procVars
    /\ UNCHANGED fnVars

\* !streamingEnabled || streamingFailed
PostsAll(enabled, failed) == ~enabled \/ failed

DrainedDegradesOnExit ==
    /\ pc = "drain"
    /\ outputCh = <<>>
    /\ debugInfo' = DebugInfo(ExitCodeOf(waitErr))
    /\ finalOutput' = FinalOutput(outputBuf, DebugInfo(ExitCodeOf(waitErr)))
    /\ pc' = IF PostsAll(streamingEnabled, streamingFailed)
                \/ waitErr.kind # "nil"
             THEN "postAll" ELSE "flushRest"
    /\ UNCHANGED << streamingEnabled, streamingFailed, lastSentLen, outputBuf,
                    ticks, waitErr, calls >>
    /\ UNCHANGED << outputCh, commandDone, enq >>
    /\ UNCHANGED procVars
    /\ UNCHANGED fnVars

\* default: goto drained.  The exit code, debugInfo and finalOutput are
\* prepared; the coordinator goes on to deliver.
Drained ==
    /\ pc = "drain"
    /\ outputCh = <<>>
    /\ debugInfo' = DebugInfo(ExitCodeOf(waitErr))
    /\ finalOutput' = FinalOutput(outputBuf, DebugInfo(ExitCodeOf(waitErr)))
    /\ pc' = IF PostsAll(streamingEnabled, streamingFailed)
             THEN "postAll" ELSE "flushRest"
    /\ UNCHANGED << streamingEnabled, streamingFailed, lastSentLen, outputBuf,
                    ticks, waitErr, calls >>
    /\ UNCHANGED << outputCh, commandDone, enq >>
    /\ UNCHANGED procVars
    /\ UNCHANGED fnVars

PostAllRetries ==
    /\ pc = "postAll"
    /\ \E ok \in BOOLEAN :
         /\ calls' = Append(calls, Call("reply", finalOutput, ok))
         /\ pc' = IF ok \/ Len(calls) > 8 THEN "done" ELSE "postAll"
    /\ UNCHANGED << streamingEnabled, streamingFailed, lastSentLen, outputBuf,
                    ticks, waitErr, finalOutput, debugInfo >>
    /\ UNCHANGED << outputCh, commandDone, enq >>
    /\ UNCHANGED procVars
    /\ UNCHANGED fnVars

PostAllFallsThrough ==
    /\ pc = "postAll"
    /\ \E ok \in BOOLEAN :
         calls' = Append(calls, Call("reply", finalOutput, ok))
    /\ pc' = "fallback"
    /\ UNCHANGED << streamingEnabled, streamingFailed, lastSentLen, outputBuf,
                    ticks, waitErr, finalOutput, debugInfo >>
    /\ UNCHANGED << outputCh, commandDone, enq >>
    /\ UNCHANGED procVars
    /\ UNCHANGED fnVars

\* Streaming failed or was never enabled: postThreadReply(finalOutput), return.
PostAll ==
    /\ pc = "postAll"
    /\ \E ok \in BOOLEAN :
         calls' = Append(calls, Call("reply", finalOutput, ok))
    /\ pc' = "done"
    /\ UNCHANGED << streamingEnabled, streamingFailed, lastSentLen, outputBuf,
                    ticks, waitErr, finalOutput, debugInfo >>
    /\ UNCHANGED << outputCh, commandDone, enq >>
    /\ UNCHANGED procVars
    /\ UNCHANGED fnVars

FlushRestSkips ==
    /\ pc = "flushRest"
    /\ UNCHANGED << calls, streamingFailed >>
    /\ pc' = "appendDebug"
    /\ UNCHANGED << streamingEnabled, lastSentLen, outputBuf,
                    ticks, waitErr, finalOutput, debugInfo >>
    /\ UNCHANGED << outputCh, commandDone, enq >>
    /\ UNCHANGED procVars
    /\ UNCHANGED fnVars

FlushRestUnguarded ==
    /\ pc = "flushRest"
    /\ \E ok \in BOOLEAN :
         /\ calls' = Append(calls,
                Call("append", NewOutput(outputBuf, lastSentLen), ok))
         /\ streamingFailed' = IF ok THEN streamingFailed ELSE TRUE
    /\ pc' = "appendDebug"
    /\ UNCHANGED << streamingEnabled, lastSentLen, outputBuf,
                    ticks, waitErr, finalOutput, debugInfo >>
    /\ UNCHANGED << outputCh, commandDone, enq >>
    /\ UNCHANGED procVars
    /\ UNCHANGED fnVars

\* Append the remaining output when outputBuf.Len() > lastSentLen.
FlushRest ==
    /\ pc = "flushRest"
    /\ IF Len(outputBuf) > lastSentLen
          /\ Len(NewOutput(outputBuf, lastSentLen)) > 0
       THEN \E ok \in BOOLEAN :
              /\ calls' = Append(calls,
                     Call("append", NewOutput(outputBuf, lastSentLen), ok))
              /\ streamingFailed' = IF ok THEN streamingFailed ELSE TRUE
       ELSE UNCHANGED << calls, streamingFailed >>
    /\ pc' = "appendDebug"
    /\ UNCHANGED << streamingEnabled, lastSentLen, outputBuf,
                    ticks, waitErr, finalOutput, debugInfo >>
    /\ UNCHANGED << outputCh, commandDone, enq >>
    /\ UNCHANGED procVars
    /\ UNCHANGED fnVars

AppendDebugSkipsReport ==
    /\ pc = "appendDebug"
    /\ UNCHANGED << calls, streamingFailed >>
    /\ pc' = IF ~streamingFailed THEN "stop" ELSE "fallback"
    /\ UNCHANGED << streamingEnabled, lastSentLen, outputBuf,
                    ticks, waitErr, finalOutput, debugInfo >>
    /\ UNCHANGED << outputCh, commandDone, enq >>
    /\ UNCHANGED procVars
    /\ UNCHANGED fnVars

AppendDebugStopsAnyway ==
    /\ pc = "appendDebug"
    /\ IF ~streamingFailed
       THEN \E ok \in BOOLEAN :
              /\ calls' = Append(calls, Call("append", debugInfo, ok))
              /\ streamingFailed' = IF ok THEN streamingFailed ELSE TRUE
              /\ pc' = "stop"
       ELSE /\ UNCHANGED << calls, streamingFailed >>
            /\ pc' = "fallback"
    /\ UNCHANGED << streamingEnabled, lastSentLen, outputBuf,
                    ticks, waitErr, finalOutput, debugInfo >>
    /\ UNCHANGED << outputCh, commandDone, enq >>
    /\ UNCHANGED procVars
    /\ UNCHANGED fnVars

\* if !streamingFailed: appendToStream(debugInfo); on success go on to stop.
AppendDebug ==
    /\ pc = "appendDebug"
    /\ IF ~streamingFailed
       THEN \E ok \in BOOLEAN :
              /\ calls' = Append(calls, Call("append", debugInfo, ok))
              /\ streamingFailed' = IF ok THEN streamingFailed ELSE TRUE
              /\ pc' = IF ok THEN "stop" ELSE "fallback"
       ELSE /\ UNCHANGED << calls, streamingFailed >>
            /\ pc' = "fallback"
    /\ UNCHANGED << streamingEnabled, lastSentLen, outputBuf,
                    ticks, waitErr, finalOutput, debugInfo >>
    /\ UNCHANGED << outputCh, commandDone, enq >>
    /\ UNCHANGED procVars
    /\ UNCHANGED fnVars

StopStreamIgnoringResult ==
    /\ pc = "stop"
    /\ \E ok \in BOOLEAN :
         /\ calls' = Append(calls, Call("stop", <<>>, ok))
         /\ streamingFailed' = streamingFailed
    /\ pc' = "fallback"
    /\ UNCHANGED << streamingEnabled, lastSentLen, outputBuf,
                    ticks, waitErr, finalOutput, debugInfo >>
    /\ UNCHANGED << outputCh, commandDone, enq >>
    /\ UNCHANGED procVars
    /\ UNCHANGED fnVars

\* if !stopChatStream(...) { streamingFailed = true }
StopStream ==
    /\ pc = "stop"
    /\ \E ok \in BOOLEAN :
         /\ calls' = Append(calls, Call("stop", <<>>, ok))
         /\ streamingFailed' = IF ok THEN streamingFailed ELSE TRUE
    /\ pc' = "fallback"
    /\ UNCHANGED << streamingEnabled, lastSentLen, outputBuf,
                    ticks, waitErr, finalOutput, debugInfo >>
    /\ UNCHANGED << outputCh, commandDone, enq >>
    /\ UNCHANGED procVars
    /\ UNCHANGED fnVars

FallbackAlways(failed) == TRUE

FallbackNever(failed) == FALSE

\* if streamingFailed { postThreadReply(finalOutput) }
FallbackNeeded(failed) == failed

\* The last step of the streaming branch, then return.
Fallback ==
    /\ pc = "fallback"
    /\ IF FallbackNeeded(streamingFailed)
       THEN \E ok \in BOOLEAN :
              calls' = Append(calls, Call("reply", finalOutput, ok))
       ELSE calls' = calls
    /\ pc' = "done"
    /\ UNCHANGED << streamingEnabled, streamingFailed, lastSentLen, outputBuf,
                    ticks, waitErr, finalOutput, debugInfo >>
    /\ UNCHANGED << outputCh, commandDone, enq >>
    /\ UNCHANGED procVars
    /\ UNCHANGED fnVars

\* ------------------------------------------------------------ specification
Next ==
    \/ PostInitial
    \/ StartStream
    \/ StdoutPipe
    \/ StderrPipe
    \/ CmdStartOk
    \/ CmdStartFail
    \/ SpawnFailReport
    \/ SpawnFailStop
    \/ ChildWrite("stdout")
    \/ ChildWrite("stderr")
    \/ ChildExit
    \/ ReaderRead("stdout")
    \/ ReaderRead("stderr")
    \/ ReaderPush("stdout")
    \/ ReaderPush("stderr")
    \/ CmdWait
    \/ Dequeue
    \/ Tick
    \/ TakeCommandDone
    \/ WaitStdoutDone
    \/ WaitStderrDone
    \/ DrainOne
    \/ Drained
    \/ PostAll
    \/ FlushRest
    \/ AppendDebug
    \/ StopStream
    \/ Fallback

Spec == Init /\ [][Next]_vars

\* ------------------------------------------------- observations on calls
RECURSIVE Flatten(_)
Flatten(chunks) ==
    IF chunks = <<>> THEN <<>> ELSE Head(chunks) \o Flatten(Tail(chunks))

CallsOf(op) == SelectSeq(calls, LAMBDA c : c.op = op)

OkAppend(c) == c.op = "append" /\ c.ok

\* What the live session holds: the payloads of the successful appends.
RECURSIVE TextOf(_)
TextOf(cs) == IF cs = <<>> THEN <<>> ELSE Head(cs).text \o TextOf(Tail(cs))

StreamText == TextOf(SelectSeq(calls, OkAppend))

StopSucceeded == \E i \in 1..Len(calls) : calls[i].op = "stop" /\ calls[i].ok

StartSucceeded == \E i \in 1..Len(calls) : calls[i].op = "start" /\ calls[i].ok

StartFailed == \E i \in 1..Len(calls) : calls[i].op = "start" /\ ~calls[i].ok

AppendFailed == \E i \in 1..Len(calls) : calls[i].op = "append" /\ ~calls[i].ok

StopFailed == \E i \in 1..Len(calls) : calls[i].op = "stop" /\ ~calls[i].ok

\* The child process was started (cmd.Start succeeded).
ChildStarted == child # "none"

\* handleCommandExecution has returned.
Returned == pc = "done"

\* The completion report has been computed (the coordinator passed drained).
ReportComputed == debugInfo # <<>>

\* The complete output: the opening fence, every chunk pushed on the queue in
\* arrival order, and the completion report.
CompleteOutput == FenceOpen \o Flatten(enq) \o DebugInfo(ExitCodeOf(waitErr))

\* ------------------------------------------------------------------ claims

\* C1: every execution that obtained an anchor and started the child ends
\* having delivered the complete output (buffer plus completion report) by at
\* least one mode: everything appended to the live session and stop-session
\* succeeded, or a fallback reply carrying the complete output was issued.
C1_DeliveredByAtLeastOneMode ==
    (Returned /\ ChildStarted) =>
        \/ StopSucceeded /\ StreamText = outputBuf \o debugInfo
        \/ \E i \in 1..Len(calls) :
             calls[i].op = "reply" /\ calls[i].text = outputBuf \o debugInfo

C1_Witness ==
    /\ Returned /\ ChildStarted
    /\ AppendFailed
    /\ Len(CallsOf("reply")) = 1
    /\ Len(enq) >= 2

\* C2: the two delivery modes never both complete: no fallback reply is issued
\* in an execution whose stop-session succeeded, and stop-session is never
\* called after a fallback reply.
C2_NeverBothModes ==
    /\ ~(StopSucceeded /\ CallsOf("reply") # <<>>)
    /\ \A i, j \in 1..Len(calls) :
         (i < j /\ calls[i].op = "reply") => calls[j].op # "stop"

C2_Witness ==
    /\ Returned /\ ChildStarted
    /\ StopSucceeded
    /\ CallsOf("reply") = <<>>
    /\ Len(outputBuf) > Len(FenceOpen)

\* C3: one-way degrade: after a failed start-session, append or stop-session
\* call, no later append or stop-session call is issued, on any path.
C3_OneWayDegrade ==
    \A i, j \in 1..Len(calls) :
        (/\ i < j
         /\ calls[i].op \in {"start", "append", "stop"}
         /\ ~calls[i].ok)
        => calls[j].op \notin {"append", "stop"}

\* C4: 0 <= lastSentLen <= length of outputBuf in every state; lastSentLen
\* changes only in a step that makes a successful append call, and then grows
\* by exactly the length of that call's payload; any other step (a failed or
\* skipped flush included) leaves it unchanged.
C4_MonotonicOffset ==
    /\ [](0 <= lastSentLen /\ lastSentLen <= Len(outputBuf))
    /\ [][ \/ lastSentLen' = lastSentLen
           \/ /\ Len(calls') = Len(calls) + 1
              /\ calls'[Len(calls')].op = "append"
              /\ calls'[Len(calls')].ok
              /\ Len(calls'[Len(calls')].text) > 0
              /\ lastSentLen' = lastSentLen + Len(calls'[Len(calls')].text) ]_vars
    /\ [][ (\/ calls' = calls
            \/ (Len(calls') = Len(calls) + 1 /\ ~calls'[Len(calls')].ok))
           => lastSentLen' = lastSentLen ]_vars

C4_Witness ==
    /\ lastSentLen > Len(FenceOpen)
    /\ Len(outputBuf) > lastSentLen
    /\ AppendFailed

\* C5 as stated: the final output equals exactly the chunks read from both
\* streams in queue-arrival order followed by the completion report, with
\* nothing else added.
C5_FinalOutputIsChunksPlusReport ==
    ReportComputed =>
        finalOutput = Flatten(enq) \o DebugInfo(ExitCodeOf(waitErr))

\* C5 amended: the final output equals the opening fence "```\n", then the
\* chunks read from both streams in queue-arrival order, then the completion
\* report; every fallback reply of an execution whose child started carries
\* exactly that text.
C5_FinalOutputIsFenceChunksReport ==
    /\ ReportComputed => finalOutput = CompleteOutput
    /\ ChildStarted =>
         \A i \in 1..Len(calls) :
            calls[i].op = "reply" => calls[i].text = CompleteOutput

C5_Witness ==
    /\ ReportComputed
    /\ Len(enq) >= 3
    /\ \E i, j \in 1..Len(enq) : i < j /\ enq[i][1] > 10 /\ enq[j][1] < 10

\* C6: once the child has exited the coordinator always goes on to return; in
\* particular it never waits on a reader-completion signal while that reader
\* waits to push onto the full queue.  In such a state the wait is for ever:
\* the coordinator is the only consumer of outputCh and it is not dequeuing.
C6_NeverWaitsOnBlockedReader ==
    /\ ~(/\ pc = "waitStdout"
         /\ rd["stdout"].pc = "push"
         /\ Len(outputCh) = QueueCap)
    /\ ~(/\ pc = "waitStderr"
         /\ rd["stderr"].pc = "push"
         /\ Len(outputCh) = QueueCap)

\* C7: every byte the child wrote to stdout or stderr before it exited is in
\* outputBuf when the completion report is computed, for every interleaving
\* of the readers, cmd.Wait and the coordinator.
C7_AllWrittenBytesInBuffer ==
    ReportComputed =>
        \A s \in Streams : \A i \in 1..Len(written[s]) :
            \E j \in 1..Len(outputBuf) : outputBuf[j] = written[s][i]

\* C8: in an execution whose child started, where start-session and every
\* append succeeded and stop-session failed, exactly one fallback reply is
\* issued, and its text is the whole buffer plus the completion report: all
\* that had been streamed successfully is in it again, not only a remainder.
C8_StopFailurePostsFullOutput ==
    (/\ Returned /\ ChildStarted
     /\ StartSucceeded /\ ~AppendFailed /\ StopFailed)
    => /\ Len(CallsOf("reply")) = 1
       /\ CallsOf("reply")[1].text = outputBuf \o debugInfo
       /\ CallsOf("reply")[1].text = StreamText
       /\ calls[Len(calls)].op = "reply"

C8_Witness ==
    /\ Returned /\ ChildStarted
    /\ StartSucceeded /\ ~AppendFailed /\ StopFailed
    /\ lastSentLen > Len(FenceOpen)
    /\ Len(CallsOf("append")) >= 3

\* C9: no append is attempted after the first append that fails; and an
\* execution whose child started and in which an append failed ends with
\* exactly one fallback reply whose text is the fence, every chunk pushed on
\* the queue (those flushed before the failure, those of the failed flush and
\* those that arrived afterwards) and the completion report.
C9_AppendFailureStopsAppendsAndPostsAll ==
    /\ \A i, j \in 1..Len(calls) :
         (i < j /\ calls[i].op = "append" /\ ~calls[i].ok)
         => calls[j].op # "append"
    /\ (Returned /\ ChildStarted /\ AppendFailed)
       => /\ Len(CallsOf("reply")) = 1
          /\ CallsOf("reply")[1].text = CompleteOutput
          /\ outputBuf = FenceOpen \o Flatten(enq)

\* A tick's flush failed after an earlier one succeeded, and output arrived
\* after the failure.
C9_Witness ==
    /\ Returned /\ ChildStarted
    /\ ticks >= 2
    /\ \E i, j \in 1..Len(calls) :
         /\ i < j
         /\ calls[i].op = "append" /\ calls[i].ok
         /\ calls[j].op = "append" /\ ~calls[j].ok
         /\ lastSentLen + Len(calls[j].text) < Len(outputBuf)
    /\ Len(CallsOf("reply")) = 1

\* C10: start-session is called at most once; after it returned an error the
\* execution goes on to run the command, makes no append and no stop-session
\* call at all, and, its child started, ends with exactly one fallback reply
\* carrying the command output and the completion report.
C10_StartFailureFallsBack ==
    /\ [](Len(CallsOf("start")) <= 1)
    /\ [](StartFailed => CallsOf("append") = <<>> /\ CallsOf("stop") = <<>>)
    /\ []((Returned /\ ChildStarted /\ StartFailed)
          => /\ Len(CallsOf("reply")) = 1
             /\ CallsOf("reply")[1].text = CompleteOutput)
    /\ [][pc = "startStream" => pc' = "stdoutPipe"]_vars

C10_Witness ==
    /\ Returned /\ ChildStarted
    /\ StartFailed
    /\ ticks >= 1
    /\ Len(outputBuf) > Len(FenceOpen)
    /\ Len(CallsOf("reply")) = 1

\* Every sink call made so far succeeded.
AllCallsOk == \A i \in 1..Len(calls) : calls[i].ok

\* C11: success path: with post-initial, start-session, every append and
\* stop-session succeeding, an execution whose child started has started the
\* live session once, has appended the output and then the completion report,
\* has called stop-session last, successfully, and has posted no reply.
C11_SuccessPath ==
    (Returned /\ ChildStarted /\ AllCallsOk)
    => /\ Len(CallsOf("start")) = 1
       /\ calls[2].op = "start"
       /\ StreamText = CompleteOutput
       /\ CallsOf("append")[Len(CallsOf("append"))].text
            = DebugInfo(ExitCodeOf(waitErr))
       /\ Len(CallsOf("stop")) = 1
       /\ calls[Len(calls)].op = "stop"
       /\ calls[Len(calls) - 1].op = "append"
       /\ CallsOf("reply") = <<>>

C11_Witness ==
    /\ Returned /\ ChildStarted /\ AllCallsOk
    /\ Len(enq) >= 2
    /\ ticks >= 1
    /\ Len(outputBuf) > lastSentLen

\* C12: flush cadence: a tick causes at most one append call, and a tick at
\* which the buffer holds nothing beyond lastSentLen causes no sink call.
C12_FlushCadence ==
    [][ ticks' = ticks + 1
        => /\ Len(calls') <= Len(calls) + 1
           /\ \A i \in 1..Len(calls') :
                i > Len(calls) => calls'[i].op = "append"
           /\ Len(outputBuf) = lastSentLen => calls' = calls ]_vars

\* Two ticks were taken with streaming healthy and only the first flushed.
C12_Witness ==
    /\ pc = "loop"
    /\ ticks = 2
    /\ streamingEnabled /\ ~streamingFailed
    /\ Len(CallsOf("append")) = 1
    /\ Len(outputBuf) = lastSentLen

\* C13: a tick with buffer length equal to lastSentLen makes no sink call and
\* leaves the mode, lastSentLen and the buffer unchanged; and no append call,
\* at a tick or at completion, carries an empty payload.
C13_SkippedFlushIsNoOp ==
    /\ [][ (ticks' = ticks + 1 /\ Len(outputBuf) = lastSentLen)
           => UNCHANGED << calls, streamingEnabled, streamingFailed,
                           lastSentLen, outputBuf, pc >> ]_vars
    /\ [](\A i \in 1..Len(calls) :
             calls[i].op = "append" => calls[i].text # <<>>)

\* The tick flushed everything, so the completion path had no remainder to
\* append and went straight to the completion report.
C13_Witness ==
    /\ Returned /\ ChildStarted /\ AllCallsOk
    /\ Len(outputBuf) > Len(FenceOpen)
    /\ Len(outputBuf) = lastSentLen
    /\ Len(CallsOf("append")) = 2

\* C14: anchor failure is a hard abort: when post-initial fails (transport
\* error, reply not ok, or no timestamp) the execution ends at once: no
\* start-session call, no child, no reader, no append, stop or reply call.
C14_AnchorFailureAborts ==
    (calls # <<>> /\ (~calls[1].ok \/ calls[1].text = <<>>))
    => /\ Len(calls) = 1
       /\ pc = "done"
       /\ child = "none"
       /\ \A s \in Streams : rd[s].pc = "idle"
       /\ ticks = 0

C14_Witness ==
    /\ Returned
    /\ Len(calls) = 1
    /\ calls[1].op = "postInitial" /\ ~calls[1].ok

C16_OneMessageByLastViableMode ==
    (Returned /\ calls[1].ok)
    => IF StartFailed \/ AppendFailed \/ StopFailed
       THEN Len(CallsOf("reply")) = 1
       ELSE StopSucceeded /\ CallsOf("reply") = <<>>

\* True when payload ends with the bytes of report.
EndsWith(payload, report) ==
    /\ Len(payload) >= Len(report)
    /\ SubSeq(payload, Len(payload) - Len(report) + 1, Len(payload)) = report

\* C17: in every execution whose child started, also one that wrote nothing,
\* the completion report is put after all output in the final output, and a
\* payload ending with the report is handed to the sink: the last live append
\* or the fallback reply.
C17_CompletionReportDelivered ==
    (Returned /\ ChildStarted)
    => /\ finalOutput
            = FenceOpen \o Flatten(enq) \o DebugInfo(ExitCodeOf(waitErr))
       /\ \E i \in 1..Len(calls) :
            /\ calls[i].op \in {"append", "reply"}
            /\ EndsWith(calls[i].text, DebugInfo(ExitCodeOf(waitErr)))
            /\ \A j \in 1..Len(calls) :
                 (j > i) => calls[j].op \in {"stop", "reply"}

\* The command wrote nothing at all.
C17_Witness ==
    /\ Returned /\ ChildStarted
    /\ \A s \in Streams : written[s] = <<>>
    /\ outputBuf = FenceOpen
    /\ AllCallsOk

\* C18: the reported exit status is 0 only when the child exited normally
\* with status 0; a nonzero exit reports its code; a child killed by a signal
\* and a wait error that is not an exit-status error report a nonzero code.
C18_ExitStatusNeverFalseSuccess ==
    ReportComputed
    => /\ (debugInfo = DebugInfo(0)) <=> (waitErr.kind = "nil")
       /\ waitErr.kind = "exit" => debugInfo = DebugInfo(waitErr.code)

\* ------------------------------------- the sink functions, called alone
\* The characters of the texts: space, newline, tab and the letter 'a'.
TextAlphabet == {32, 10, 9, 97}

Texts == UNION { [1..n -> TextAlphabet] : n \in 0..MaxText }

\* The ASCII white space strings.TrimSpace removes.
WhiteSpace == {9, 10, 11, 12, 13, 32}

RECURSIVE TrimLeft(_)
TrimLeft(t) ==
    IF t # <<>> /\ Head(t) \in WhiteSpace THEN TrimLeft(Tail(t)) ELSE t

RECURSIVE TrimRight(_)
TrimRight(t) ==
    IF t # <<>> /\ t[Len(t)] \in WhiteSpace
    THEN TrimRight(SubSeq(t, 1, Len(t) - 1)) ELSE t

\* strings.TrimSpace
TrimSpace(t) == TrimRight(TrimLeft(t))

\* What a sink endpoint can answer to one request: client.Do fails, the body
\* does not decode, the reply is not ok, the reply is ok.
SinkAnswers == {"transportError", "decodeError", "notOk", "ok"}

SinkInit ==
    /\ ExecInit
    /\ \A s \in Streams : toWrite[s] = <<>>
    /\ requests = <<>>
    /\ handler = NoHandler
    /\ twin = NoTwin
    /\ other = NoOther
    /\ \E name \in {"appendToStream", "postThreadReply"}, text \in Texts :
         fn = [name |-> name, text |-> text, pc |-> "called",
               answer |-> "none", ret |-> FALSE]

\* appendToStream(token, channelID, ts, markdownText): builds the request
\* with markdown_text set to the text, hands it to client.Do, and returns
\* true only for a decoded reply that is ok.
AppendToStreamCall ==
    /\ fn.name = "appendToStream"
    /\ fn.pc = "called"
    /\ \E a \in SinkAnswers :
         /\ requests' = Append(requests,
                [path |-> "chat.appendStream", text |-> fn.text])
         /\ fn' = [fn EXCEPT !.pc = "returned", !.answer = a,
                             !.ret = (a = "ok")]
    /\ UNCHANGED << handler, twin, other >>
    /\ UNCHANGED execVars

\* postThreadReply(token, channelID, threadTS, text): builds the request with
\* text set, hands it to client.Do, logs a failure; it returns nothing.
PostThreadReplyCall ==
    /\ fn.name = "postThreadReply"
    /\ fn.pc = "called"
    /\ \E a \in SinkAnswers :
         /\ requests' = Append(requests,
                [path |-> "chat.postMessage", text |-> fn.text])
         /\ fn' = [fn EXCEPT !.pc = "returned", !.answer = a]
    /\ UNCHANGED << handler, twin, other >>
    /\ UNCHANGED execVars

SinkNext ==
    \/ AppendToStreamCall
    \/ PostThreadReplyCall

SinkSpec == SinkInit /\ [][SinkNext]_vars

\* C19: appendToStream with an empty or whitespace-only text returns true and
\* sends no request; with another text it sends exactly one request, carrying
\* that text, and returns true iff the sink answered ok.
C19_AppendToStreamSkipsBlank ==
    (fn.name = "appendToStream" /\ fn.pc = "returned")
    => IF TrimSpace(fn.text) = <<>>
       THEN fn.ret /\ requests = <<>>
       ELSE /\ Len(requests) = 1
            /\ requests[1].text = fn.text
            /\ fn.ret <=> (fn.answer = "ok")

\* C20: postThreadReply with an empty or whitespace-only text sends no
\* request; with another text it sends exactly one request.
C20_PostThreadReplySkipsBlank ==
    (fn.name = "postThreadReply" /\ fn.pc = "returned")
    => IF TrimSpace(fn.text) = <<>>
       THEN requests = <<>>
       ELSE Len(requests) = 1 /\ requests[1].text = fn.text

\* ------------------------------------------------- claims on the aggregator
\* True when p is a prefix of t.
IsPrefix(p, t) == Len(p) <= Len(t) /\ SubSeq(t, 1, Len(p)) = p

\* C25: the completion report is computed at most once, every execution
\* whose child started and that returned has computed it, it is computed only
\* when the completion signal was sent and received, both readers are done
\* and the queue is empty, and once it is computed no chunk is enqueued,
\* dequeued or added to the buffer.
C25_ReportComputedOnceAfterDrain ==
    /\ [](Returned /\ ChildStarted => ReportComputed)
    /\ [][debugInfo' # debugInfo =>
            /\ debugInfo = <<>>
            /\ waited /\ commandDone = <<>>
            /\ \A s \in Streams : rd[s].pc = "done"
            /\ outputCh = <<>>]_vars
    /\ [][ReportComputed =>
            UNCHANGED << enq, outputCh, outputBuf, debugInfo >>]_vars

C25_Witness ==
    /\ ReportComputed
    /\ Returned
    /\ Len(enq) >= 2
    /\ waitErr.kind = "exit"

\* The buffer prefix [0, lastSentLen).
SentPrefix == SubSeq(outputBuf, 1, lastSentLen)

\* The coordinator has made no append of the completion path yet.
BeforeLastFlush ==
    pc \in {"loop", "waitStdout", "waitStderr", "drain", "postAll", "flushRest"}

\* C26: the payloads of the successful appends made from ticks, concatenated
\* in call order, equal the buffer prefix [0, lastSentLen) (the appends of
\* the completion path follow them), and every flush carries exactly the
\* buffer from lastSentLen to its end.
C26_FifoFlushNoDuplication ==
    /\ [](/\ IsPrefix(SentPrefix, StreamText)
          /\ BeforeLastFlush => StreamText = SentPrefix)
    /\ [][(pc \in {"loop", "flushRest"} /\ Len(calls') = Len(calls) + 1) =>
            /\ calls'[Len(calls')].op = "append"
            /\ calls'[Len(calls')].text =
                  SubSeq(outputBuf, lastSentLen + 1, Len(outputBuf))
            /\ calls'[Len(calls')].text # <<>>]_vars

C26_Witness ==
    /\ pc = "loop"
    /\ Len(SelectSeq(calls, OkAppend)) = 2
    /\ lastSentLen = Len(outputBuf)
    /\ StreamText = outputBuf

\* The bytes a stream can carry.
StreamBytes(s) ==
    IF s = "stdout" THEN { StdoutByte(i) : i \in 1..MaxOut }
                    ELSE { StderrByte(i) : i \in 1..MaxErr }

\* seq restricted to the bytes of stream s.
OfStream(seq, s) == SelectSeq(seq, LAMBDA b : b \in StreamBytes(s))

\* What the reader of stream s has read so far: the bytes the child wrote to
\* s that have left the pipe.
ReadSeq(s) == SubSeq(written[s], 1, Len(written[s]) - Len(pipe[s]))

\* C27: for each stream, the bytes of that stream in the buffer, then in the
\* queue, then in the chunk its reader is about to push, are the bytes the
\* reader read, in the order it read them.
C27_PerReaderOrder ==
    \A s \in Streams :
       OfStream(outputBuf, s) \o OfStream(Flatten(outputCh), s) \o rd[s].chunk
          = ReadSeq(s)

C27_Witness ==
    outputBuf = FenceOpen \o << StdoutByte(1), StderrByte(1), StdoutByte(2) >>

\* The chunks the coordinator has taken from outputCh, in order.
Dequeued == SubSeq(enq, 1, Len(enq) - Len(outputCh))

\* C28 as stated: the buffer equals the concatenation of the dequeued chunks,
\* never shrinks, and only a dequeue step of the coordinator changes it.
C28_BufferIsDequeuedChunks ==
    /\ [](outputBuf = Flatten(Dequeued))
    /\ [][outputBuf' # outputBuf =>
            /\ outputCh # <<>>
            /\ outputCh' = Tail(outputCh)
            /\ outputBuf' = outputBuf \o Head(outputCh)]_vars

\* C28: the buffer equals the opening fence, written when the child has been
\* started, followed by the concatenation of the dequeued chunks; it never
\* shrinks; only that write of the fence and the dequeue steps of the
\* coordinator change it.
C28_BufferIsFenceThenDequeuedChunks ==
    /\ [](outputBuf =
            (IF ChildStarted THEN FenceOpen ELSE <<>>) \o Flatten(Dequeued))
    /\ [][IsPrefix(outputBuf, outputBuf')]_vars
    /\ [][outputBuf' # outputBuf =>
            \/ /\ outputCh # <<>>
               /\ outputCh' = Tail(outputCh)
               /\ outputBuf' = outputBuf \o Head(outputCh)
               /\ pc \in {"loop", "drain"}
            \/ /\ ~ChildStarted /\ ChildStarted'
               /\ outputBuf' = FenceOpen]_vars

C28_Witness ==
    /\ Len(enq) - Len(outputCh) >= 2
    /\ outputCh # <<>>
    /\ calls[Len(calls)].op = "append"

\* mode = DEGRADED: the start failed, or an append or stop failed.
Degraded == (StartFailed /\ ~streamingEnabled) \/ streamingFailed

\* mode = STREAMING
Streaming == streamingEnabled /\ ~streamingFailed

\* C29: a degraded execution stays degraded, never streams again, and makes
\* no further start-session call.
C29_DegradeIsIrreversible ==
    [][Degraded =>
         /\ Degraded'
         /\ ~Streaming'
         /\ Len(CallsOf("start")') = Len(CallsOf("start"))]_vars

C29_Witness ==
    /\ Returned
    /\ streamingEnabled /\ streamingFailed
    /\ ticks = MaxTicks
    /\ Len(CallsOf("append")) = 1

\* C30: the first sink call is post-initial and nothing follows it unless it
\* succeeded; start-session is called once, second, before the child is
\* spawned; an append is made only after a successful start; a stop made in
\* the completion path comes after successful appends that carried the whole
\* final output, the report last; nothing follows a successful stop or a
\* fallback reply.
C30_SinkCallOrder ==
    /\ [](/\ calls # <<>> => calls[1].op = "postInitial"
          /\ (Len(calls) >= 2 \/ ChildStarted) => calls[1].ok
          /\ Len(CallsOf("start")) <= 1
          /\ pc \notin {"postInitial", "startStream"} /\ calls[1].ok =>
                calls[2].op = "start"
          /\ \A i \in 1..Len(calls) :
               /\ calls[i].op = "append" =>
                     calls[2].op = "start" /\ calls[2].ok
               /\ (calls[i].op = "stop" /\ ReportComputed) =>
                     /\ \A j \in 1..(i - 1) : calls[j].ok
                     /\ calls[i - 1] = Call("append", debugInfo, TRUE)
                     /\ StreamText = finalOutput
               /\ ((calls[i].op = "stop" /\ calls[i].ok)
                     \/ calls[i].op = "reply") => i = Len(calls))
    /\ [][Len(CallsOf("start")') # Len(CallsOf("start")) =>
            ~ChildStarted /\ ~ChildStarted']_vars

C30_Witness ==
    /\ Returned
    /\ calls[Len(calls)] = Call("stop", <<>>, TRUE)
    /\ Len(calls) = 6
    /\ calls[3].text # FenceOpen

\* ------------------------------------------------------ the webhook handler
\* The handler function registered by main (streaming variant), called with
\* one request; on a valid request it starts handleCommandExecution.
Methods == {"GET", "POST"}

\* "$"
Dollar == <<36>>

\* The bytes of a request's text: '$', ' ', 'a'.
CommandAlphabet == {36, 32, 97}

CommandTexts == UNION { [1..n -> CommandAlphabet] : n \in 0..MaxCommand }

\* The texts of the requests served with an execution: none, "a", "$a".
ServeTexts == { <<>>, <<97>>, <<36, 97>> }

\* r.Method, the outcome of r.ParseForm(), and the form values "text",
\* "channel_id" and "user_id" ("" when the field is missing).
Requests(texts) ==
    [method : Methods, formErr : BOOLEAN, text : texts,
     channelID : {<<>>, <<67>>}, userID : {<<>>, <<85>>}]

\* The handler at its entry with request r: nothing written to w yet.
NewHandler(r) ==
    [pc |-> "method", method |-> r.method, formErr |-> r.formErr,
     text |-> r.text, channelID |-> r.channelID, userID |-> r.userID,
     command |-> <<>>, code |-> 0, body |-> ""]

RECURSIVE TrimPrefixAll(_, _)
TrimPrefixAll(t, prefix) ==
    IF Len(t) >= Len(prefix) /\ SubSeq(t, 1, Len(prefix)) = prefix
    THEN TrimPrefixAll(SubSeq(t, Len(prefix) + 1, Len(t)), prefix)
    ELSE t

\* strings.TrimPrefix(t, prefix): t without the leading prefix, t itself
\* when it does not start with prefix.
TrimPrefix(t, prefix) ==
    IF Len(t) >= Len(prefix) /\ SubSeq(t, 1, Len(prefix)) = prefix
    THEN SubSeq(t, Len(prefix) + 1, Len(t))
    ELSE t

\* http.Error(w, msg, code); return
Reject(code, msg) ==
    handler' = [handler EXCEPT !.pc = "returned", !.code = code, !.body = msg]

\* if r.Method != http.MethodPost { 405 }
HandlerMethod ==
    /\ handler.pc = "method"
    /\ IF handler.method # "POST"
       THEN Reject(405, "Method not allowed")
       ELSE handler' = [handler EXCEPT !.pc = "parseForm"]
    /\ UNCHANGED << fn, requests, twin, other >>
    /\ UNCHANGED execVars

\* if err := r.ParseForm(); err != nil { 400 }
HandlerParseForm ==
    /\ handler.pc = "parseForm"
    /\ IF handler.formErr
       THEN Reject(400, "Bad request")
       ELSE handler' = [handler EXCEPT !.pc = "fields"]
    /\ UNCHANGED << fn, requests, twin, other >>
    /\ UNCHANGED execVars

HandlerFieldsIgnoringUser ==
    /\ handler.pc = "fields"
    /\ IF handler.text = <<>> \/ handler.channelID = <<>>
       THEN Reject(400, "Missing required fields")
       ELSE handler' = [handler EXCEPT !.pc = "command"]
    /\ UNCHANGED << fn, requests, twin, other >>
    /\ UNCHANGED execVars

\* if text == "" || channelID == "" || userID == "" { 400 }
HandlerFields ==
    /\ handler.pc = "fields"
    /\ IF handler.text = <<>> \/ handler.channelID = <<>>
          \/ handler.userID = <<>>
       THEN Reject(400, "Missing required fields")
       ELSE handler' = [handler EXCEPT !.pc = "command"]
    /\ UNCHANGED << fn, requests, twin, other >>
    /\ UNCHANGED execVars

\* command := strings.TrimPrefix(text, "$"); command = strings.TrimSpace(command)
HandlerCommand ==
    /\ handler.pc = "command"
    /\ handler' = [handler EXCEPT
                     !.pc = "writeHeader",
                     !.command = TrimSpace(TrimPrefix(handler.text, Dollar))]
    /\ UNCHANGED << fn, requests, twin, other >>
    /\ UNCHANGED execVars

HandlerWriteHeaderSkipped ==
    /\ handler.pc = "writeHeader"
    /\ handler' = [handler EXCEPT !.pc = "go"]
    /\ UNCHANGED << fn, requests, twin, other >>
    /\ UNCHANGED execVars

\* w.WriteHeader(http.StatusOK)
HandlerWriteHeader ==
    /\ handler.pc = "writeHeader"
    /\ handler' = [handler EXCEPT !.pc = "go", !.code = 200]
    /\ UNCHANGED << fn, requests, twin, other >>
    /\ UNCHANGED execVars

\* go handleCommandExecution(..., command), and the handler returns.
HandlerGo ==
    /\ handler.pc = "go"
    /\ pc = "idle"
    /\ pc' = "postInitial"
    /\ handler' = [handler EXCEPT !.pc = "returned"]
    /\ UNCHANGED << streamingEnabled, streamingFailed, lastSentLen, outputBuf,
                    ticks, waitErr, finalOutput, debugInfo, calls >>
    /\ UNCHANGED << outputCh, commandDone, enq >>
    /\ UNCHANGED procVars
    /\ UNCHANGED << fn, requests, twin, other >>

HandlerNext ==
    \/ HandlerMethod
    \/ HandlerParseForm
    \/ HandlerFields
    \/ HandlerCommand
    \/ HandlerWriteHeader
    \/ HandlerGo

\* One request is about to be handled; no execution has been started.
HandlerInitOver(texts) ==
    /\ pc = "idle"
    /\ ExecFields
    /\ toWrite = [s \in Streams |->
                    IF s = "stdout" THEN << StdoutByte(1) >>
                                    ELSE << StderrByte(1) >>]
    /\ fn = NoFn
    /\ requests = <<>>
    /\ \E r \in Requests(texts) : handler = NewHandler(r)
    /\ twin = NoTwin
    /\ other = NoOther

HandlerInit == HandlerInitOver(CommandTexts)

\* The handler alone, over all request texts.
HandlerSpec == HandlerInit /\ [][HandlerNext]_vars

ServeInit == HandlerInitOver(ServeTexts)

ServeNext == HandlerNext \/ Next

\* The handler and the execution it starts.
ServeSpec == ServeInit /\ [][ServeNext]_vars

\* text, channel_id and user_id are there, the method is POST, the form parses.
ValidRequest ==
    /\ handler.method = "POST"
    /\ ~handler.formErr
    /\ handler.text # <<>>
    /\ handler.channelID # <<>>
    /\ handler.userID # <<>>

\* handleCommandExecution has been started.
ExecStarted == pc # "idle"

\* C21: for a valid request the handler writes 200 with an empty body and
\* nothing else; it writes it in a step at which the execution has not been
\* started and no sink call has been made; whenever the execution is started,
\* has called the sink or has spawned the child, the response is already
\* written; the handler returns in the step that starts the execution, so it
\* waits for none of its steps.
C21_RespondsBeforeExecution ==
    /\ [](/\ ValidRequest => handler.code \in {0, 200} /\ handler.body = ""
          /\ (ExecStarted \/ calls # <<>> \/ ChildStarted) =>
                handler.code = 200 /\ handler.body = ""
          /\ (ValidRequest /\ handler.pc = "returned") => ExecStarted)
    /\ [][handler.code' # handler.code =>
            ~ExecStarted /\ ~ExecStarted' /\ calls' = <<>>]_vars
    /\ [][(handler.pc # "returned" /\ handler.pc' = "returned"
             /\ ValidRequest) =>
            pc' = "postInitial" /\ calls' = <<>> /\ ~ChildStarted']_vars

C21_Witness ==
    /\ ValidRequest
    /\ handler.code = 200 /\ handler.body = ""
    /\ handler.pc = "returned"
    /\ pc = "loop"
    /\ child = "running"

\* The status a request that is not valid is answered with.
RejectCode == IF handler.method # "POST" THEN 405 ELSE 400

\* C22: a request that is not a POST is answered 405, a POST whose form does
\* not parse or whose text, channel_id or user_id is empty is answered 400;
\* for none of them an execution is started, a child spawned or a sink call
\* made.
C22_RejectedRequestDoesNothing ==
    ~ValidRequest =>
       /\ handler.code \in {0, RejectCode}
       /\ handler.pc = "returned" => handler.code = RejectCode
       /\ handler.command = <<>>
       /\ ~ExecStarted
       /\ ~ChildStarted
       /\ calls = <<>>

C22_Witness ==
    /\ handler.pc = "returned"
    /\ handler.code = 400
    /\ ~handler.formErr
    /\ handler.text # <<>> /\ handler.channelID # <<>>
    /\ handler.userID = <<>>

\* text without one leading '$', if it has one.
StripOneDollar(t) == IF t # <<>> /\ t[1] = 36 THEN Tail(t) ELSE t

SyncTexts == { <<>>, <<32>>, <<36, 97>> }

\* The bytes the child writes: newline, space, 'o', and 'M', which stands for
\* the text "--- stderr ---".
SyncAlphabet == {10, 32, 111, 77}

SyncOutputs(max) == UNION { [1..n -> SyncAlphabet] : n \in 0..max }

\* "--- stderr ---"
StderrMarker == <<77>>

\* translateExitCode: the words of the table abbreviated to one letter each,
\* "error %d" to 'e' followed by the number.
TranslateExitCode(code) ==
    CASE code = 0 -> <<83>>
      [] code = 1 -> <<69>>
      [] code = 2 -> <<85>>
      [] code = 126 -> <<88>>
      [] code = 127 -> <<78>>
      [] code = 128 -> <<73>>
      [] code \in {130, 143} -> <<84>>
      [] OTHER -> <<101>> \o Itoa(code)

\* strings.Split(t, "\n")
RECURSIVE SplitLines(_)
SplitLines(t) ==
    IF \A i \in 1..Len(t) : t[i] # 10
    THEN << t >>
    ELSE LET k == CHOOSE i \in 1..Len(t) :
                     t[i] = 10 /\ \A j \in 1..(i - 1) : t[j] # 10
         IN << SubSeq(t, 1, k - 1) >> \o SplitLines(SubSeq(t, k + 1, Len(t)))

\* strings.Join(lines, "\n")
RECURSIVE JoinLines(_)
JoinLines(lines) ==
    IF lines = <<>> THEN <<>>
    ELSE IF Len(lines) = 1 THEN lines[1]
    ELSE lines[1] \o <<10>> \o JoinLines(Tail(lines))

Blank(line) == TrimSpace(line) = <<>>

RECURSIVE DropLeadingBlank(_)
DropLeadingBlank(lines) ==
    IF lines # <<>> /\ Blank(Head(lines))
    THEN DropLeadingBlank(Tail(lines)) ELSE lines

RECURSIVE DropTrailingBlank(_)
DropTrailingBlank(lines) ==
    IF lines # <<>> /\ Blank(lines[Len(lines)])
    THEN DropTrailingBlank(SubSeq(lines, 1, Len(lines) - 1)) ELSE lines

\* cleanedLines: the lines of stdout followed by stderr, without the lines
\* that are the stderr marker and without leading and trailing blank lines.
CleanedLines(out, errOut) ==
    DropTrailingBlank(DropLeadingBlank(
        SelectSeq(SplitLines(out \o errOut),
                  LAMBDA l : TrimSpace(l) # StderrMarker)))

\* The status and the duration ('D') that end the result.
StatusLine(exitCode) == TranslateExitCode(exitCode) \o <<32, 68>>

\* The string executeCommand returns.
CommandResult(originalText, out, errOut, exitCode) ==
    LET lines == CleanedLines(out, errOut) IN
    IF TrimSpace(originalText) = <<>> /\ lines = <<>>
    THEN StatusLine(exitCode)
    ELSE <<96, 96, 96>> \o originalText
         \o (IF lines # <<>> THEN <<10>> \o JoinLines(lines) ELSE <<>>)
         \o <<10, 45, 45, 45, 10>> \o StatusLine(exitCode)
         \o <<96, 96, 96, 10>>

\* The synchronous handler at its entry with request r.
NewSyncHandler(r) ==
    [pc |-> "method", method |-> r.method, formErr |-> r.formErr,
     text |-> r.text, command |-> <<>>, code |-> 0, body |-> "",
     responseType |-> "", result |-> <<>>,
     child |-> "none", stdout |-> <<>>, stderr |-> <<>>, err |-> NoErr]

SyncInit ==
    /\ pc = "idle"
    /\ ExecFields
    /\ \A s \in Streams : toWrite[s] = <<>>
    /\ fn = NoFn
    /\ requests = <<>>
    /\ twin = NoTwin
    /\ other = NoOther
    /\ \E method \in Methods, formErr \in BOOLEAN, text \in SyncTexts :
         handler = NewSyncHandler([method |-> method, formErr |-> formErr,
                                   text |-> text])

\* if r.Method != http.MethodPost { 405 }
SyncMethod ==
    /\ handler.pc = "method"
    /\ IF handler.method # "POST"
       THEN Reject(405, "Method not allowed")
       ELSE handler' = [handler EXCEPT !.pc = "parseForm"]
    /\ UNCHANGED << fn, requests, twin, other >>
    /\ UNCHANGED execVars

\* if err := r.ParseForm(); err != nil { 400 }
SyncParseForm ==
    /\ handler.pc = "parseForm"
    /\ IF handler.formErr
       THEN Reject(400, "Bad request")
       ELSE handler' = [handler EXCEPT !.pc = "text"]
    /\ UNCHANGED << fn, requests, twin, other >>
    /\ UNCHANGED execVars

\* if text == "" { 400 }; otherwise the command is extracted.
SyncText ==
    /\ handler.pc = "text"
    /\ IF handler.text = <<>>
       THEN Reject(400, "Missing required field: text")
       ELSE handler' = [handler EXCEPT
                          !.pc = "run",
                          !.command = TrimSpace(TrimPrefix(handler.text, Dollar))]
    /\ UNCHANGED << fn, requests, twin, other >>
    /\ UNCHANGED execVars

\* executeCommand, cmd.Run(): the child is started, or it cannot be started
\* and Run returns an error that is no *exec.ExitError.
SyncRunStart ==
    /\ handler.pc = "run"
    /\ \E ok \in BOOLEAN :
         IF ok
         THEN handler' = [handler EXCEPT !.pc = "wait", !.child = "running"]
         ELSE handler' = [handler EXCEPT
                            !.pc = "respond",
                            !.err = [kind |-> "other", code |-> 0]]
    /\ UNCHANGED << fn, requests, twin, other >>
    /\ UNCHANGED execVars

\* The child writes its output, captured in the two buffers, and exits.
SyncChildExit ==
    /\ handler.child = "running"
    /\ \E out \in SyncOutputs(MaxOut), errOut \in SyncOutputs(MaxErr) :
         handler' = [handler EXCEPT !.child = "exited",
                                    !.stdout = out, !.stderr = errOut]
    /\ UNCHANGED << fn, requests, twin, other >>
    /\ UNCHANGED execVars

\* cmd.Run() returns once the child has exited.
SyncRunReturns ==
    /\ handler.pc = "wait"
    /\ handler.child = "exited"
    /\ \E e \in WaitErrs :
         handler' = [handler EXCEPT !.pc = "respond", !.err = e]
    /\ UNCHANGED << fn, requests, twin, other >>
    /\ UNCHANGED execVars

\* The rest of executeCommand and of the handler: the result is built and
\* written as JSON with status 200.
SyncRespond ==
    /\ handler.pc = "respond"
    /\ handler' = [handler EXCEPT
                     !.pc = "returned",
                     !.code = 200,
                     !.body = "json",
                     !.responseType = "in_channel",
                     !.result = CommandResult(handler.text, handler.stdout,
                                   handler.stderr, ExitCodeOf(handler.err))]
    /\ UNCHANGED << fn, requests, twin, other >>
    /\ UNCHANGED execVars

SyncNext ==
    \/ SyncMethod
    \/ SyncParseForm
    \/ SyncText
    \/ SyncRunStart
    \/ SyncChildExit
    \/ SyncRunReturns
    \/ SyncRespond

SyncSpec == SyncInit /\ [][SyncNext]_vars

\* True when part occurs in t.
Contains(t, part) ==
    \E i \in 0..(Len(t) - Len(part)) : SubSeq(t, i + 1, i + Len(part)) = part

\* C24: a response is written only when the child of the request has exited;
\* a 200 response is JSON of response_type "in_channel" whose text holds the
\* cleaned output of the child and ends with the status of its exit; a
\* request with empty text is answered 400 and no child is started for it.
C24_SyncRespondsAfterCompletion ==
    /\ handler.text = <<>> =>
          /\ handler.code \in {0, 400, 405}
          /\ handler.child = "none"
          /\ handler.pc \notin {"run", "wait", "respond"}
    /\ handler.code = 200 =>
          /\ handler.child = "exited"
          /\ handler.responseType = "in_channel"
          /\ Contains(handler.result,
                JoinLines(CleanedLines(handler.stdout, handler.stderr)))
          /\ Contains(handler.result,
                StatusLine(ExitCodeOf(handler.err)))

\* ------------------------------------------------ claims on the last calls
\* C31: a fallback reply that failed is the last sink call of the execution:
\* no call of any kind follows it, and the execution has returned.
C31_FailedReplyIsTerminal ==
    \A i \in 1..Len(calls) :
       (calls[i].op = "reply" /\ ~calls[i].ok) => (i = Len(calls) /\ Returned)

C31_Witness ==
    /\ Returned /\ ChildStarted
    /\ StopFailed
    /\ calls[Len(calls)].op = "reply" /\ ~calls[Len(calls)].ok
    /\ calls[Len(calls)].text = finalOutput

\* C33: at most one fallback reply is posted in an execution, on every path
\* and for every pattern of sink failures.
C33_AtMostOneReply ==
    Len(CallsOf("reply")) <= 1

C33_Witness ==
    /\ Returned
    /\ Len(CallsOf("reply")) = 1
    /\ Len(calls) >= 4
    /\ calls[Len(calls) - 1] = Call("append", debugInfo, FALSE)

\* C34: stop-session is called at most once, and only in an execution whose
\* start-session call succeeded.
C34_StopOnceAndOnlyAfterStart ==
    /\ Len(CallsOf("stop")) <= 1
    /\ CallsOf("stop") # <<>> => (StartSucceeded /\ ~StartFailed)
    /\ StartFailed => CallsOf("stop") = <<>>

C34_Witness ==
    /\ Returned
    /\ child = "none"
    /\ Len(calls) = 3
    /\ calls[3] = Call("stop", <<>>, FALSE)

\* C35: in an execution whose live session was completed (the report was
\* computed and stop-session succeeded), the payloads of the successful
\* appends, concatenated in call order, are exactly the text a fallback reply
\* carries: the final buffer followed by the completion report.
C35_StreamedTextIsFallbackText ==
    (ReportComputed /\ StopSucceeded) =>
       /\ StreamText = FinalOutput(outputBuf, debugInfo)
       /\ StreamText = finalOutput
       /\ ~AppendFailed

C35_Witness ==
    /\ Returned /\ ReportComputed /\ StopSucceeded
    /\ ticks = MaxTicks
    /\ Len(SelectSeq(calls, OkAppend)) = 4
    /\ StreamText = finalOutput

\* C37: an execution that obtained an anchor and returned without starting
\* the child (a pipe could not be created, or the child could not be started)
\* has made a stop-session or a post-reply call.
C37_PipeFailureStillDelivers ==
    (Returned /\ calls[1].ok /\ ~ChildStarted) =>
       (CallsOf("stop") # <<>> \/ CallsOf("reply") # <<>>)

\* ----------------------------------------- two runs of the completion path
\* The completion path (main.go:227-272) is run twice from the same drained
\* state: once with the exit status cmd.Wait() gave, once with another one.
TwinInit ==
    /\ ExecInit
    /\ toWrite = [s \in Streams |->
                    IF s = "stdout" THEN << StdoutByte(1) >>
                                    ELSE << StderrByte(1) >>]
    /\ fn = NoFn
    /\ requests = <<>>
    /\ handler = NoHandler
    /\ other = NoOther
    /\ twin = [phase |-> "armed", failed |-> FALSE, calls |-> <<>>,
               firstCalls |-> <<>>, firstFailed |-> FALSE,
               firstErr |-> NoErr, firstDebug |-> <<>>]

\* The state at the label drained is kept: streamingFailed and the calls made
\* in the loop (the buffer, lastSentLen and streamingEnabled do not change
\* after it).
TwinSnapshot ==
    /\ twin.phase = "armed"
    /\ pc = "drain"
    /\ outputCh = <<>>
    /\ twin' = [twin EXCEPT !.phase = "snapped", !.failed = streamingFailed,
                            !.calls = calls]
    /\ UNCHANGED << fn, requests, handler, other >>
    /\ UNCHANGED execVars

\* The first run has returned: what it did is kept, and the completion path
\* is entered again at the label drained with another result of cmd.Wait().
TwinRestart ==
    /\ twin.phase = "snapped"
    /\ pc = "done"
    /\ \E e \in WaitErrs \ {waitErr} : waitErr' = e
    /\ twin' = [twin EXCEPT !.phase = "second", !.firstCalls = calls,
                            !.firstFailed = streamingFailed,
                            !.firstErr = waitErr, !.firstDebug = debugInfo]
    /\ pc' = "drain"
    /\ streamingFailed' = twin.failed
    /\ calls' = twin.calls
    /\ debugInfo' = <<>>
    /\ finalOutput' = <<>>
    /\ UNCHANGED << streamingEnabled, lastSentLen, outputBuf, ticks >>
    /\ UNCHANGED << outputCh, commandDone, enq >>
    /\ UNCHANGED procVars
    /\ UNCHANGED << fn, requests, handler, other >>

TwinNext ==
    \/ Next
    \/ TwinSnapshot
    \/ TwinRestart

TwinSpec == TwinInit /\ [][TwinNext]_vars

\* The first k sink calls of the two runs got the same answers.
SameAnswers(k) ==
    \A j \in 1..k :
       (j <= Len(calls) /\ j <= Len(twin.firstCalls)) =>
          calls[j].ok = twin.firstCalls[j].ok

\* C32: two runs that differ in the exit status and get the same answers from
\* the sink make the same sink operations in the same order, with the same
\* texts except where the text ends with the completion report, and end in
\* the same mode; a fallback reply and a degrade are always preceded by a
\* failed call of the live session, whatever the exit status.
C32_ExitStatusIsData ==
    /\ twin.phase = "second" =>
         /\ \A k \in 1..Min(Len(calls), Len(twin.firstCalls)) :
               SameAnswers(k - 1) =>
                  /\ calls[k].op = twin.firstCalls[k].op
                  /\ calls[k].text # twin.firstCalls[k].text =>
                        /\ EndsWith(calls[k].text, debugInfo)
                        /\ EndsWith(twin.firstCalls[k].text, twin.firstDebug)
         /\ (Returned /\ SameAnswers(Len(calls))) =>
               /\ Len(calls) = Len(twin.firstCalls)
               /\ streamingFailed = twin.firstFailed
    /\ (ChildStarted /\ CallsOf("reply") # <<>>) =>
          (StartFailed \/ AppendFailed \/ StopFailed)
    /\ streamingFailed => (AppendFailed \/ StopFailed)

C32_Witness ==
    /\ twin.phase = "second"
    /\ Returned
    /\ SameAnswers(Len(calls))
    /\ twin.firstErr.kind = "nil"
    /\ waitErr.kind = "signal"
    /\ StopSucceeded
    /\ calls # twin.firstCalls

\* ------------------------------------------------- two executions at once
\* A second goroutine running handleCommandExecution for another request.
\* Its locals are the fields of other; its child writes OtherOutput to stdout
\* and nothing to stderr, its pipes and its child start without error, and
\* its ticker fires at most once.
OtherOutput == << 21 >>

OtherStart ==
    [pc |-> "postInitial", enabled |-> FALSE, failed |-> FALSE,
     lastSentLen |-> 0, buf |-> <<>>, queue |-> <<>>, pending |-> OtherOutput,
     ticked |-> FALSE, calls |-> <<>>]

PairInit ==
    /\ ExecInit
    /\ toWrite = [s \in Streams |->
                    IF s = "stdout" THEN << StdoutByte(1) >>
                                    ELSE << StderrByte(1) >>]
    /\ fn = NoFn
    /\ requests = <<>>
    /\ handler = NoHandler
    /\ twin = NoTwin
    /\ other = OtherStart

\* threadTS, err := postInitialMessage(...), on error return; then
\* _, err = startChatStream(...), streamingEnabled = (err == nil); then
\* cmd.Start(), outputCh := make(...), outputBuf.WriteString("```\n").
OtherBegin ==
    /\ other.pc = "postInitial"
    /\ \/ other' = [other EXCEPT
                      !.calls = << Call("postInitial", <<>>, FALSE) >>,
                      !.pc = "done"]
       \/ \E ok \in BOOLEAN :
            other' = [other EXCEPT
                        !.calls = << Call("postInitial", MessageTS, TRUE),
                                     Call("start", <<>>, ok) >>,
                        !.enabled = ok,
                        !.buf = FenceOpen,
                        !.pc = "loop"]
    /\ UNCHANGED << fn, requests, handler, twin >>
    /\ UNCHANGED execVars

OtherReaderPushShared ==
    /\ other.pc = "loop"
    /\ other.pending # <<>>
    /\ Len(outputCh) < QueueCap
    /\ outputCh' = Append(outputCh, << Head(other.pending) >>)
    /\ other' = [other EXCEPT !.pending = Tail(@)]
    /\ UNCHANGED << fn, requests, handler, twin >>
    /\ UNCHANGED coordVars
    /\ UNCHANGED << commandDone, enq >>
    /\ UNCHANGED procVars

\* The stdout reader of the second execution: n, err := stdout.Read(buf);
\* outputCh <- append([]byte(nil), buf[:n]...), on its own outputCh.
OtherReaderPush ==
    /\ other.pc = "loop"
    /\ other.pending # <<>>
    /\ Len(other.queue) < QueueCap
    /\ other' = [other EXCEPT !.queue = Append(@, << Head(other.pending) >>),
                              !.pending = Tail(@)]
    /\ UNCHANGED << fn, requests, handler, twin >>
    /\ UNCHANGED execVars

\* case data := <-outputCh: outputBuf.Write(data)
OtherDequeue ==
    /\ other.pc = "loop"
    /\ other.queue # <<>>
    /\ other' = [other EXCEPT !.buf = @ \o Head(other.queue),
                              !.queue = Tail(@)]
    /\ UNCHANGED << fn, requests, handler, twin >>
    /\ UNCHANGED execVars

\* case <-ticker.C
OtherTick ==
    /\ other.pc = "loop"
    /\ ~other.ticked
    /\ IF ShouldFlush(Len(other.buf), other.lastSentLen,
                      other.enabled, other.failed)
          /\ Len(NewOutput(other.buf, other.lastSentLen)) > 0
       THEN \E ok \in BOOLEAN :
              other' = [other EXCEPT
                          !.ticked = TRUE,
                          !.calls = Append(@, Call("append",
                                 NewOutput(other.buf, other.lastSentLen), ok)),
                          !.failed = IF ok THEN @ ELSE TRUE,
                          !.lastSentLen = AfterFlush(ok, @, Len(other.buf))]
       ELSE other' = [other EXCEPT !.ticked = TRUE]
    /\ UNCHANGED << fn, requests, handler, twin >>
    /\ UNCHANGED execVars

\* case err := <-commandDone, once the child has exited and the readers are
\* done: what is left in outputCh is written to outputBuf, then the
\* completion path runs with exit code 0; a[1..3] are the answers of the sink
\* to the remainder append, the report append and the stop, for those of them
\* that are made, and the reply, whose answer is only logged, is accepted.
\* The deferred ticker.Stop() ends the ticks.
OtherFinish ==
    /\ other.pc = "loop"
    /\ other.pending = <<>>
    /\ \E a \in [1..3 -> BOOLEAN] :
         LET buf == other.buf \o Flatten(other.queue)
             debug == DebugInfo(0)
             final == FinalOutput(buf, debug)
             rest == NewOutput(buf, other.lastSentLen)
             flush == Len(buf) > other.lastSentLen /\ Len(rest) > 0
             c1 == IF flush THEN Append(other.calls, Call("append", rest, a[1]))
                            ELSE other.calls
             f1 == other.failed \/ (flush /\ ~a[1])
             c2 == IF ~f1 THEN Append(c1, Call("append", debug, a[2])) ELSE c1
             c3 == IF ~f1 /\ a[2] THEN Append(c2, Call("stop", <<>>, a[3]))
                                  ELSE c2
             f3 == f1 \/ ~a[2] \/ ~a[3]
         IN  other' = [other EXCEPT
                         !.pc = "done",
                         !.ticked = TRUE,
                         !.buf = buf,
                         !.queue = <<>>,
                         !.failed = IF PostsAll(other.enabled, other.failed)
                                    THEN @ ELSE f3,
                         !.calls =
                            IF PostsAll(other.enabled, other.failed)
                            THEN Append(other.calls, Call("reply", final, TRUE))
                            ELSE IF FallbackNeeded(f3)
                            THEN Append(c3, Call("reply", final, TRUE))
                            ELSE c3]
    /\ UNCHANGED << fn, requests, handler, twin >>
    /\ UNCHANGED execVars

OtherNext ==
    \/ OtherBegin
    \/ OtherReaderPush
    \/ OtherDequeue
    \/ OtherTick
    \/ OtherFinish

PairNext == Next \/ OtherNext

PairSpec == PairInit /\ [][PairNext]_vars

\* The bytes the child of the first execution writes.
ExecBytes == StreamBytes("stdout") \cup StreamBytes("stderr")

\* The bytes in the texts of the calls cs.
BytesOfCalls(cs) == { TextOf(cs)[i] : i \in 1..Len(TextOf(cs)) }

\* The bytes in the sequence t.
BytesOf(t) == { t[i] : i \in 1..Len(t) }

\* A live-session call of cs failed.
SessionCallFailed(cs) ==
    \E i \in 1..Len(cs) : cs[i].op \in {"append", "stop"} /\ ~cs[i].ok

\* C36: no byte of one child is in the queue, the buffer or a sink payload of
\* the other execution; a step of one execution leaves the buffer, queue,
\* lastSentLen, mode and sink calls of the other unchanged; and an execution
\* is marked failed only when one of its own live-session calls failed.
C36_ExecutionsAreIsolated ==
    /\ [](/\ BytesOf(OtherOutput) \cap
               (BytesOf(outputBuf) \cup BytesOf(Flatten(outputCh))
                  \cup BytesOfCalls(calls)) = {}
          /\ ExecBytes \cap
               (BytesOf(other.buf) \cup BytesOf(Flatten(other.queue))
                  \cup BytesOfCalls(other.calls)) = {}
          /\ streamingFailed => SessionCallFailed(calls)
          /\ other.failed => SessionCallFailed(other.calls))
    /\ [][other' = other \/ UNCHANGED execVars]_vars

C36_Witness ==
    /\ pc = "loop" /\ other.pc = "loop"
    /\ streamingEnabled /\ streamingFailed
    /\ other.enabled /\ ~other.failed
    /\ other.lastSentLen > Len(FenceOpen)
    /\ Len(outputBuf) > Len(FenceOpen)
====
